---- MODULE Spec2Model ----
(***************************************************************************)
(* Model of azure-cosmosdb-batch-api:                                      *)
(*   src/logging_service.py  LoggingService (log and trace pipelines,      *)
(*                           logger and tracer issuance)                   *)
(*   src/db.py               DB (credential selection, client handles)     *)
(*   src/main.py             the entry workflow (one batch, its error path)*)
(*                                                                         *)
(* Spec      LoggingService under arbitrary sequences of its public calls. *)
(* SpecTrace the trace pipeline with the spans of its tracers.             *)
(* SpecMain  the entry workflow of main.py, statement by statement.        *)
(***************************************************************************)
EXTENDS Integers, Sequences, FiniteSets, TLC

VARIABLES
    self_cfg,          \* LoggingService constructor fields (config, flags, names, sampling_ratio)
    loggers,           \* self.loggers: names already configured
    logger_provider,   \* self.logger_provider (NoProvider models None)
    tracer_provider,   \* self.tracer_provider (NoProvider models None)
    py_loggers,        \* the logging module's process-wide loggers: name -> level, handlers
    otel,              \* OpenTelemetry process state: installed defaults, objects created
    tracer,            \* the tracer most recently handed out
    span,              \* the span of that tracer: "none", "open", "ended"
    exported,          \* exporter classes that have received an ended span
    ret,               \* the most recent call and its outcome
    env,               \* environment-derived settings of the entry workflow
    pc,                \* position of the entry workflow
    db,                \* DB object: credential, cosmos/database/container clients
    credential_calls,  \* number of DefaultAzureCredential() invocations
    db_calls,          \* database operations submitted, in order
    batch,             \* outcome of execute_item_batch
    printed            \* what the workflow printed

lsVars == <<self_cfg, loggers, logger_provider, tracer_provider, py_loggers,
            otel, tracer, span, exported, ret>>
mainVars == <<env, pc, db, credential_calls, db_calls, batch, printed>>
vars == <<self_cfg, loggers, logger_provider, tracer_provider, py_loggers,
          otel, tracer, span, exported, ret,
          env, pc, db, credential_calls, db_calls, batch, printed>>

----------------------------------------------------------------------------
(* Bounds *)

\* providers built per pipeline before the explicit setup_* calls stop being explored
MaxProviders == 2

----------------------------------------------------------------------------
(* Values *)

\* LOGGING_LEVEL: the LogLevels default
LogLevels == {"INFO"}

\* level of a logger nobody has configured (logging.NOTSET)
NOTSET == "NOTSET"

\* logger names a caller may request; "" is the root logger
LoggerNames == {"", "LoggerName", "azure"}

\* loggers a caller may pass as additional_loggers (by name); <<>> also stands
\* for None, which skips the same loop
AdditionalLoggers == {<<>>, <<"azure">>, <<"azure", "urllib3">>}

AllLoggerNames == LoggerNames \cup {"urllib3"}

ModuleNames == {"ModuleName"}

\* sampling ratios in percent; 100 is the 1.0 default
SamplingRatios == {25, 100}

DefaultSamplingRatio == 100

ServiceNames == {"ServiceName"}

ServiceInstanceNames == {"ServiceInstanceName"}

\* self.logger_provider / self.tracer_provider = None
NoProvider ==
    [id |-> 0, resource |-> [service_name |-> "", service_instance_id |-> ""],
     sampler |-> 0, processors |-> <<>>]

IsNone(provider) == provider.id = 0

NoTracer == [module |-> "", provider |-> NoProvider]

Range(seq) == {seq[i] : i \in 1..Len(seq)}

----------------------------------------------------------------------------
(* LoggingService: pipeline construction *)

\* Resource.create({"service.name": ..., "service.instance.id": ...})
Resource_create(service_name, service_instance_name) ==
    [service_name |-> service_name, service_instance_id |-> service_instance_name]

\* the resource built by setup_logger_provider
LoggerResource == Resource_create(self_cfg.service_name, self_cfg.service_instance_name)

TracerResourceSwapped == Resource_create(self_cfg.service_instance_name, self_cfg.service_name)

\* the resource built by setup_tracer_provider
TracerResource == Resource_create(self_cfg.service_name, self_cfg.service_instance_name)

\* log_exporters of setup_logger_provider: optional console exporter, then the
\* Azure Monitor exporter (unconditionally)
LogExporters ==
    (IF self_cfg.console_log_exporter THEN <<"ConsoleLogExporter">> ELSE <<>>)
        \o <<"AzureMonitorLogExporter">>

AzureSpanExporterAlways == TRUE

\* the condition under which setup_tracer_provider creates the Azure Monitor span exporter
AzureSpanExporterWanted == self_cfg.LOGGING_ENABLED

\* span_exporters of setup_tracer_provider
SpanExporters ==
    (IF self_cfg.console_span_exporter THEN <<"ConsoleSpanExporter">> ELSE <<>>)
        \o (IF AzureSpanExporterWanted THEN <<"AzureMonitorTraceExporter">> ELSE <<>>)

\* one processor of the configured class per exporter, in order
Processors(class, exporters) ==
    [i \in 1..Len(exporters) |-> [class |-> class, exporter |-> exporters[i]]]

\* the provider setup_logger_provider builds; id is the new object's identity
NewLoggerProvider(id) ==
    [id |-> id, resource |-> LoggerResource, sampler |-> 0,
     processors |-> Processors(self_cfg.log_record_processor, LogExporters)]

\* the provider setup_tracer_provider(sampling_ratio) builds
NewTracerProvider(id, sampling_ratio) ==
    [id |-> id, resource |-> TracerResource, sampler |-> sampling_ratio,
     processors |-> Processors(self_cfg.span_processor, SpanExporters)]

\* OpenTelemetry state after a provider was built and passed to
\* set_logger_provider / set_tracer_provider
OtelAfterSetup(o, pipeline, provider) ==
    [o EXCEPT !.installed[pipeline] = Append(@, provider.id),
              !.providers = @ + 1,
              !.exporters = @ + Len(provider.processors),
              !.processors = @ + Len(provider.processors)]

\* identity of the next provider built for a pipeline: they are numbered in
\* order of creation
NextProviderId(pipeline) == Len(otel.installed[pipeline]) + 1

\* explicit call of setup_logger_provider(): no presence check in the code
setup_logger_provider ==
    /\ Len(otel.installed["log"]) < MaxProviders
    /\ LET provider == NewLoggerProvider(NextProviderId("log")) IN
        /\ logger_provider' = provider
        /\ otel' = OtelAfterSetup(otel, "log", provider)
        /\ ret' = [op |-> "setup_logger_provider", exc |-> "none",
                   logger |-> "", provider |-> provider.id]
    /\ UNCHANGED <<self_cfg, loggers, tracer_provider, py_loggers, tracer, span, exported>>

\* explicit call of setup_tracer_provider(sampling_ratio): no presence check in
\* the code; the argument defaults to 1.0, not to self.sampling_ratio
setup_tracer_provider(sampling_ratio) ==
    /\ Len(otel.installed["trace"]) < MaxProviders
    /\ LET provider == NewTracerProvider(NextProviderId("trace"), sampling_ratio) IN
        /\ tracer_provider' = provider
        /\ otel' = OtelAfterSetup(otel, "trace", provider)
        /\ ret' = [op |-> "setup_tracer_provider", exc |-> "none",
                   logger |-> "", provider |-> provider.id]
    /\ UNCHANGED <<self_cfg, loggers, logger_provider, py_loggers, tracer, span, exported>>

----------------------------------------------------------------------------
(* LoggingService: logger and tracer issuance *)

RootNameAccepted(logger_name) == FALSE

\* the guard of get_logger: logger_name == ""
IsRootLoggerName(logger_name) == logger_name = ""

\* _initialize_console_log_handler: a new StreamHandler named "Console Handler"
\* at the configured level. A handler object's identity is (the logger name
\* whose get_logger call built it, its handler name): a name is configured at
\* most once, so each call builds distinct objects
ConsoleHandler(id) ==
    [name |-> "Console Handler", id |-> id,
     level |-> self_cfg.LOGGING_LEVEL, provider |-> 0]

\* LoggingHandler(logger_provider=..., level=...) named "Azure Monitor Handler"
AzureHandler(id, provider) ==
    [name |-> "Azure Monitor Handler", id |-> id,
     level |-> self_cfg.LOGGING_LEVEL, provider |-> provider.id]

AzureHandlerAlways == TRUE

\* the condition under which get_logger builds the Azure Monitor handler
AzureHandlerWanted == self_cfg.LOGGING_ENABLED

\* logging.Logger.addHandler: appends unless that handler object is already attached
addHandler(handlers, handler) ==
    IF handler \in Range(handlers) THEN handlers ELSE Append(handlers, handler)

RECURSIVE addHandlers(_, _)
\* for handler in handlers: logger.addHandler(handler)
addHandlers(attached, handlers) ==
    IF handlers = <<>> THEN attached
    ELSE addHandlers(addHandler(attached, Head(handlers)), Tail(handlers))

ConfigureWithoutLevel(table, name, handlers) ==
    [table EXCEPT ![name] = [@ EXCEPT !.handlers = addHandlers(@, handlers)]]

\* setLevel(LOGGING_LEVEL) and addHandler of each handler on the logger called name
Configure(table, name, handlers) ==
    [table EXCEPT ![name] = [level |-> self_cfg.LOGGING_LEVEL,
                             handlers |-> addHandlers(@.handlers, handlers)]]

RECURSIVE Propagate(_, _, _)
\* the loop over additional_loggers at the end of get_logger
Propagate(table, additional_loggers, handlers) ==
    IF additional_loggers = <<>> THEN table
    ELSE Propagate(Configure(table, Head(additional_loggers), handlers),
                   Tail(additional_loggers), handlers)

\* get_logger(logger_name, additional_loggers)
get_logger(logger_name, additional_loggers) ==
    IF IsRootLoggerName(logger_name) THEN
        \* raise ValueError("Don't use the root logger. ...")
        /\ ret' = [op |-> "get_logger", exc |-> "ValueError",
                   logger |-> logger_name, provider |-> 0]
        /\ UNCHANGED <<self_cfg, loggers, logger_provider, tracer_provider, py_loggers,
                       otel, tracer, span, exported>>
    ELSE IF logger_name \in Range(loggers) THEN
        \* return logging.getLogger(logger_name)
        /\ ret' = [op |-> "get_logger", exc |-> "none",
                   logger |-> logger_name, provider |-> 0]
        /\ UNCHANGED <<self_cfg, loggers, logger_provider, tracer_provider, py_loggers,
                       otel, tracer, span, exported>>
    ELSE
        LET console == IF self_cfg.console_logger
                       THEN <<ConsoleHandler(logger_name)>> ELSE <<>>
            needs_setup == AzureHandlerWanted /\ IsNone(logger_provider)
            provider == IF needs_setup THEN NewLoggerProvider(NextProviderId("log"))
                        ELSE logger_provider
            azure == IF AzureHandlerWanted
                     THEN <<AzureHandler(logger_name, provider)>> ELSE <<>>
            handlers == console \o azure
        IN  /\ logger_provider' = provider
            /\ otel' = IF needs_setup THEN OtelAfterSetup(otel, "log", provider) ELSE otel
            /\ py_loggers' = Propagate(Configure(py_loggers, logger_name, handlers),
                                       additional_loggers, handlers)
            /\ loggers' = Append(loggers, logger_name)
            /\ ret' = [op |-> "get_logger", exc |-> "none",
                       logger |-> logger_name, provider |-> 0]
            /\ UNCHANGED <<self_cfg, tracer_provider, tracer, span, exported>>

\* get_tracer(module_name)
get_tracer(module_name) ==
    LET needs_setup == IsNone(tracer_provider)
        provider == IF needs_setup
                    THEN NewTracerProvider(NextProviderId("trace"), self_cfg.sampling_ratio)
                    ELSE tracer_provider
    IN  /\ tracer_provider' = provider
        /\ otel' = IF needs_setup THEN OtelAfterSetup(otel, "trace", provider) ELSE otel
        /\ tracer' = [module |-> module_name, provider |-> provider]
        /\ ret' = [op |-> "get_tracer", exc |-> "none",
                   logger |-> "", provider |-> provider.id]
        /\ UNCHANGED <<self_cfg, loggers, logger_provider, py_loggers, span, exported>>

\* exporter classes behind the processors of a provider
ExportersOf(provider) == {provider.processors[i].exporter : i \in 1..Len(provider.processors)}

\* tracer.start_as_current_span(...): entering the with block
start_span ==
    /\ tracer # NoTracer
    /\ span.state # "open"
    /\ span' = [state |-> "open", provider |-> tracer.provider]
    /\ ret' = [op |-> "start_span", exc |-> "none", logger |-> "", provider |-> tracer.provider.id]
    /\ UNCHANGED <<self_cfg, loggers, logger_provider, tracer_provider, py_loggers,
                   otel, tracer, exported>>

\* leaving the with block: the span ends and, when sampled, every processor of
\* its provider hands it to its exporter
end_span(sampled) ==
    /\ span.state = "open"
    /\ sampled \/ span.provider.sampler < 100
    /\ span' = [span EXCEPT !.state = "ended"]
    /\ exported' = IF sampled THEN exported \cup ExportersOf(span.provider) ELSE exported
    /\ ret' = [op |-> "end_span", exc |-> "none", logger |-> "", provider |-> span.provider.id]
    /\ UNCHANGED <<self_cfg, loggers, logger_provider, tracer_provider, py_loggers,
                   otel, tracer>>

----------------------------------------------------------------------------
(* LoggingService.__init__ and the calls a client may make *)

\* the fields __init__ stores; processors keep their default classes
Constructed(service_name, service_instance_name, enabled, level, cle, cse, cl, ratio) ==
    [service_name |-> service_name,
     service_instance_name |-> service_instance_name,
     LOGGING_ENABLED |-> enabled,
     LOGGING_LEVEL |-> level,
     console_log_exporter |-> cle,
     console_span_exporter |-> cse,
     console_logger |-> cl,
     log_record_processor |-> "BatchLogRecordProcessor",
     span_processor |-> "BatchSpanProcessor",
     sampling_ratio |-> ratio]

\* the state __init__ leaves, with a process in which nothing is configured yet
InitService ==
    /\ loggers = <<>>
    /\ logger_provider = NoProvider
    /\ tracer_provider = NoProvider
    /\ py_loggers = [n \in AllLoggerNames |-> [level |-> NOTSET, handlers |-> <<>>]]
    /\ otel = [installed |-> [log |-> <<>>, trace |-> <<>>],
               providers |-> 0, exporters |-> 0, processors |-> 0]
    /\ tracer = NoTracer
    /\ span = [state |-> "none", provider |-> NoProvider]
    /\ exported = {}
    /\ ret = [op |-> "__init__", exc |-> "none", logger |-> "", provider |-> 0]

\* the entry workflow is not running
MainIdle ==
    /\ env = [COSMOSDB_ACCESS_KEY |-> "<None>",
              COSMOSDB_ACCOUNT_NAME |-> "account",
              COSMOSDB_DATABASE_NAME |-> "database",
              COSMOSDB_CONTAINER_NAME |-> "container",
              LOGGING_ENABLED |-> TRUE,
              LOGGING_LEVEL |-> "INFO"]
    /\ pc = "idle"
    /\ db = [credential |-> [kind |-> "none", value |-> ""]]
    /\ credential_calls = 0
    /\ db_calls = <<>>
    /\ batch = [outcome |-> "none", error_index |-> 0, operation_responses |-> <<>>]
    /\ printed = <<>>

Init ==
    /\ \E sn \in ServiceNames, sin \in ServiceInstanceNames, enabled \in BOOLEAN,
          level \in LogLevels, cle \in BOOLEAN, cse \in BOOLEAN, cl \in BOOLEAN,
          ratio \in SamplingRatios :
            self_cfg = Constructed(sn, sin, enabled, level, cle, cse, cl, ratio)
    /\ InitService
    /\ MainIdle

Next ==
    \/ \E logger_name \in LoggerNames, additional_loggers \in AdditionalLoggers :
          get_logger(logger_name, additional_loggers) /\ UNCHANGED mainVars
    \/ \E module_name \in ModuleNames : get_tracer(module_name) /\ UNCHANGED mainVars
    \/ setup_logger_provider /\ UNCHANGED mainVars
    \/ \E sampling_ratio \in SamplingRatios :
          setup_tracer_provider(sampling_ratio) /\ UNCHANGED mainVars

Spec == Init /\ [][Next]_vars

\* the trace pipeline alone, with the spans of the tracers it hands out
NextTrace ==
    \/ \E module_name \in ModuleNames : get_tracer(module_name) /\ UNCHANGED mainVars
    \/ \E sampling_ratio \in SamplingRatios :
          setup_tracer_provider(sampling_ratio) /\ UNCHANGED mainVars
    \/ start_span /\ UNCHANGED mainVars
    \/ \E sampled \in BOOLEAN : end_span(sampled) /\ UNCHANGED mainVars

SpecTrace == Init /\ [][NextTrace]_vars

----------------------------------------------------------------------------
(* DB: credential selection and client handles *)

\* COSMOSDB_ACCESS_KEY = None
NoneKey == "<None>"

\* values of the optional COSMOSDB_ACCESS_KEY setting
AccessKeys == {NoneKey, "", "primary-key"}

UsesAccessKeyNever(key) == FALSE

\* the truth value of self.settings.COSMOSDB_ACCESS_KEY: None and "" are false
UsesAccessKey(key) == key # NoneKey /\ key # ""

\* Settings.host
host(account_name) == <<"https://", account_name, ".documents.azure.com:443/">>

\* the credential argument of CosmosClient(...)
Credential(key) ==
    IF UsesAccessKey(key)
    THEN [kind |-> "key", value |-> key]
    ELSE [kind |-> "DefaultAzureCredential", value |-> ""]

\* no DB object exists yet
NoDB == [credential |-> [kind |-> "none", value |-> ""]]

\* DB.__init__ with _init_connection: the service client, then the database
\* handle from it, then the container handle from the database handle
DB_init ==
    LET credential == Credential(env.COSMOSDB_ACCESS_KEY)
        cosmos_client == [url |-> host(env.COSMOSDB_ACCOUNT_NAME), credential |-> credential]
        database_client == [client |-> cosmos_client,
                            database |-> env.COSMOSDB_DATABASE_NAME]
        container_client == [database_client |-> database_client,
                             container |-> env.COSMOSDB_CONTAINER_NAME]
    IN  /\ db' = [credential |-> credential,
                  cosmos_client |-> cosmos_client,
                  database_client |-> database_client,
                  container_client |-> container_client]
        /\ credential_calls' = IF credential.kind = "DefaultAzureCredential"
                               THEN credential_calls + 1 ELSE credential_calls

----------------------------------------------------------------------------
(* The entry workflow of main.py *)

\* the four operations of the batch, in order
batch_operations ==
    << [operation |-> "upsert", args |-> "123"],
       [operation |-> "upsert", args |-> "456"],
       [operation |-> "read", args |-> "123"],
       [operation |-> "read", args |-> "456"] >>

partition == "partition1"

\* status codes a failing operation may report
FailureCodes == {404, 409}

\* the operation_responses of a CosmosBatchOperationError whose operation
\* error_index failed with code: one response per operation up to at least the
\* failing one, the others marked 424 (failed dependency)
OperationResponses(error_index, code, length) ==
    [j \in 1..length |->
        [index |-> j - 1, statusCode |-> IF j - 1 = error_index THEN code ELSE 424]]

\* a Python list indexed from 0
At(list, index) == list[index + 1]

ErrorOperationFirst(operations, e) == At(operations, 0)

\* error_operation = batch_operations[e.error_index]
ErrorOperation(operations, e) == At(operations, e.error_index)

\* error_operation_response = e.operation_responses[e.error_index]
ErrorOperationResponse(e) == At(e.operation_responses, e.error_index)

NoBatch == [outcome |-> "none", error_index |-> 0, operation_responses |-> <<>>]

\* db: DB = DB()
main_DB ==
    /\ pc = "db"
    /\ DB_init
    /\ pc' = "container"
    /\ UNCHANGED <<env, db_calls, batch, printed>>
    /\ UNCHANGED lsVars

\* db.database_client.create_container_if_not_exists(...)
main_create_container ==
    /\ pc = "container"
    /\ db_calls' = Append(db_calls, [op |-> "create_container_if_not_exists",
                                     target |-> db.database_client.database,
                                     id |-> env.COSMOSDB_CONTAINER_NAME])
    /\ pc' = "logging_service"
    /\ UNCHANGED <<env, db, credential_calls, batch, printed>>
    /\ UNCHANGED lsVars

\* logging_service = LoggingService(service_name=..., service_instance_name=...)
\* with ConfigApplicationInsights() read from the environment
main_LoggingService ==
    /\ pc = "logging_service"
    /\ self_cfg' = Constructed("ServiceName", "ServiceInstanceName",
                               env.LOGGING_ENABLED, env.LOGGING_LEVEL,
                               FALSE, FALSE, TRUE, DefaultSamplingRatio)
    /\ pc' = "get_logger"
    /\ UNCHANGED <<loggers, logger_provider, tracer_provider, py_loggers, otel,
                   tracer, span, exported, ret>>
    /\ UNCHANGED <<env, db, credential_calls, db_calls, batch, printed>>

\* logger = logging_service.get_logger(logger_name)
main_get_logger ==
    /\ pc = "get_logger"
    /\ get_logger("LoggerName", <<>>)
    /\ pc' = "get_tracer"
    /\ UNCHANGED <<env, db, credential_calls, db_calls, batch, printed>>

\* tracer = logging_service.get_tracer(module_name=module_name)
main_get_tracer ==
    /\ pc = "get_tracer"
    /\ get_tracer("ModuleName")
    /\ pc' = "span"
    /\ UNCHANGED <<env, db, credential_calls, db_calls, batch, printed>>

\* with tracer.start_as_current_span(context_name):
main_start_span ==
    /\ pc = "span"
    /\ start_span
    /\ pc' = "log"
    /\ UNCHANGED <<env, db, credential_calls, db_calls, batch, printed>>

\* logger.info("COSMOSDB", ...): the record goes to the handlers of the logger
main_log_info ==
    /\ pc = "log"
    /\ printed' = Append(printed,
                         [kind |-> "log",
                          operation |-> [operation |-> "info", args |-> "COSMOSDB"],
                          response |-> [index |-> Len(py_loggers["LoggerName"].handlers),
                                        statusCode |-> 0]])
    /\ pc' = "batch"
    /\ UNCHANGED <<env, db, credential_calls, db_calls, batch>>
    /\ UNCHANGED lsVars

\* db.container_client.execute_item_batch(...): returns the results, raises
\* CosmosBatchOperationError, or raises another error that nothing catches
main_execute_item_batch ==
    /\ pc = "batch"
    /\ db_calls' = Append(db_calls, [op |-> "execute_item_batch",
                                     target |-> db.container_client.container,
                                     id |-> partition])
    /\ \/ /\ batch' = [outcome |-> "results", error_index |-> 0,
                       operation_responses |-> <<>>]
          /\ pc' = "print_results"
       \/ /\ \E error_index \in 0..(Len(batch_operations) - 1), code \in FailureCodes :
               \E length \in (error_index + 1)..Len(batch_operations) :
                  batch' = [outcome |-> "CosmosBatchOperationError",
                            error_index |-> error_index,
                            operation_responses |->
                                OperationResponses(error_index, code, length)]
          /\ pc' = "except"
       \/ /\ batch' = [outcome |-> "CosmosHttpResponseError", error_index |-> 0,
                       operation_responses |-> <<>>]
          /\ pc' = "unwind"
    /\ UNCHANGED <<env, db, credential_calls, printed>>
    /\ UNCHANGED lsVars

\* print(f"\nResults for the batch operations: {batch_results}\n")
main_print_results ==
    /\ pc = "print_results"
    /\ printed' = Append(printed,
                         [kind |-> "results",
                          operation |-> [operation |-> "batch", args |-> partition],
                          response |-> [index |-> Len(batch_operations), statusCode |-> 200]])
    /\ pc' = "span_exit"
    /\ UNCHANGED <<env, db, credential_calls, db_calls, batch>>
    /\ UNCHANGED lsVars

\* except exceptions.CosmosBatchOperationError as e: look up and print the
\* failing operation and its response
main_except ==
    /\ pc = "except"
    /\ printed' = Append(printed,
                         [kind |-> "error",
                          operation |-> ErrorOperation(batch_operations, batch),
                          response |-> ErrorOperationResponse(batch)])
    /\ pc' = "span_exit"
    /\ UNCHANGED <<env, db, credential_calls, db_calls, batch>>
    /\ UNCHANGED lsVars

\* the with block is left: normally, or by the error nothing catches
main_end_span ==
    /\ pc \in {"span_exit", "unwind"}
    /\ \E sampled \in BOOLEAN : end_span(sampled)
    /\ pc' = IF pc = "span_exit" THEN "done" ELSE "crashed"
    /\ UNCHANGED <<env, db, credential_calls, db_calls, batch, printed>>

\* the process starts with its environment read and nothing constructed
InitMain ==
    /\ \E key \in AccessKeys, enabled \in BOOLEAN, level \in LogLevels :
          env = [COSMOSDB_ACCESS_KEY |-> key,
                 COSMOSDB_ACCOUNT_NAME |-> "account",
                 COSMOSDB_DATABASE_NAME |-> "database",
                 COSMOSDB_CONTAINER_NAME |-> "container",
                 LOGGING_ENABLED |-> enabled,
                 LOGGING_LEVEL |-> level]
    /\ self_cfg = Constructed("", "", TRUE, "INFO", FALSE, FALSE, TRUE, DefaultSamplingRatio)
    /\ InitService
    /\ pc = "db"
    /\ db = NoDB
    /\ credential_calls = 0
    /\ db_calls = <<>>
    /\ batch = NoBatch
    /\ printed = <<>>

NextMain ==
    \/ main_DB
    \/ main_create_container
    \/ main_LoggingService
    \/ main_get_logger
    \/ main_get_tracer
    \/ main_start_span
    \/ main_log_info
    \/ main_execute_item_batch
    \/ main_print_results
    \/ main_except
    \/ main_end_span

SpecMain == InitMain /\ [][NextMain]_vars

----------------------------------------------------------------------------
(* Properties of LoggingService *)

\* what a call may not touch when it is rejected or repeated
ServiceState == <<loggers, logger_provider, tracer_provider, py_loggers, otel>>

Initialized(provider) == ~IsNone(provider)

HandlerSet(name) == Range(py_loggers[name].handlers)

\* how many handlers called handler_name the logger called name carries
HandlerCount(name, handler_name) ==
    Cardinality({i \in 1..Len(py_loggers[name].handlers) :
                    py_loggers[name].handlers[i].name = handler_name})

HandlerNames == {"Console Handler", "Azure Monitor Handler"}

NoHandlerTwice ==
    \A name \in AllLoggerNames : \A handler_name \in HandlerNames :
        HandlerCount(name, handler_name) <= 1

\* C1: get_logger("") raises ValueError and changes nothing: no handler is
\* attached to any logger, the name registry is unchanged and neither pipeline
\* is initialized by the call.
C1_EmptyNameRejected ==
    [][(ret'.op = "get_logger" /\ ret'.logger = "")
          => /\ ret'.exc = "ValueError"
             /\ UNCHANGED ServiceState]_vars

\* C1 witness: the empty name was rejected on a service that already has a
\* configured logger and an initialized log pipeline.
C1_Witness ==
    /\ ret.op = "get_logger" /\ ret.logger = "" /\ ret.exc = "ValueError"
    /\ loggers # <<>>
    /\ Initialized(logger_provider)

\* C2: initializing a pipeline that is already initialized is a no-op that
\* returns the existing provider, creates no provider, exporter or processor
\* and does not install a default again; each pipeline is installed at most once.
C2_InitializedOnce ==
    [][/\ (Initialized(logger_provider)
             /\ ret'.op \in {"setup_logger_provider", "get_logger"})
          => /\ logger_provider' = logger_provider
             /\ otel' = otel
             /\ (ret'.op = "setup_logger_provider"
                   => ret'.provider = logger_provider.id)
       /\ (Initialized(tracer_provider)
             /\ ret'.op \in {"setup_tracer_provider", "get_tracer"})
          => /\ tracer_provider' = tracer_provider
             /\ otel' = otel
             /\ ret'.provider = tracer_provider.id
       /\ Len(otel'.installed["log"]) <= 1
       /\ Len(otel'.installed["trace"]) <= 1]_vars

\* C3: a repeated get_logger(name) returns the same logger with its handler
\* set untouched, and after any sequence of get_logger calls no logger carries
\* a console handler or an Azure Monitor handler more than once.
C3_GetLoggerIdempotent ==
    [][/\ (ret'.op = "get_logger" /\ ret'.exc = "none" /\ ret'.logger \in Range(loggers))
          => /\ py_loggers' = py_loggers
             /\ loggers' = loggers
       /\ NoHandlerTwice']_vars

\* C9 as stated: whenever get_logger(name, additional_loggers) returns for a
\* non-empty name, every additional logger carries the same handler set as the
\* logger called name and has the configured level, also when name was
\* configured earlier.
C9_PropagationAlways ==
    [][\A logger_name \in LoggerNames \ {""} : \A additional_loggers \in AdditionalLoggers :
          get_logger(logger_name, additional_loggers)
            => \A a \in Range(additional_loggers) :
                  /\ Range(py_loggers'[a].handlers) = Range(py_loggers'[logger_name].handlers)
                  /\ py_loggers'[a].level = self_cfg.LOGGING_LEVEL]_vars

\* C9 amended: when get_logger(name, additional_loggers) configures a name not
\* configured before, every additional logger carries every handler the call
\* built and attached to the logger called name, and has the configured level;
\* a call for a name configured earlier changes no logger.
C9_PropagationOnFirstConfiguration ==
    [][\A logger_name \in LoggerNames \ {""} : \A additional_loggers \in AdditionalLoggers :
          get_logger(logger_name, additional_loggers)
            => IF logger_name \in Range(loggers)
               THEN py_loggers' = py_loggers
               ELSE \A a \in Range(additional_loggers) :
                      /\ {h \in Range(py_loggers'[logger_name].handlers) : h.id = logger_name}
                            \subseteq Range(py_loggers'[a].handlers)
                      /\ py_loggers'[a].level = self_cfg.LOGGING_LEVEL]_vars

\* C9 witness: a third-party logger passed as an additional logger carries a
\* handler built for "LoggerName" and has the configured level.
C9_Witness ==
    /\ \E h \in HandlerSet("urllib3") : h.id = "LoggerName"
    /\ py_loggers["urllib3"].level = self_cfg.LOGGING_LEVEL
    /\ "LoggerName" \in Range(loggers)

\* C8: when both pipelines are initialized, both providers' resources carry
\* the (service name, service instance name) pair given at construction.
C8_SameResource ==
    (Initialized(logger_provider) /\ Initialized(tracer_provider))
      => /\ logger_provider.resource = tracer_provider.resource
         /\ logger_provider.resource.service_name = self_cfg.service_name
         /\ logger_provider.resource.service_instance_id = self_cfg.service_instance_name

\* C8 witness: both pipelines are initialized.
C8_Witness == Initialized(logger_provider) /\ Initialized(tracer_provider)

\* C10: each pipeline only moves from uninitialized to initialized; get_logger
\* leaves the trace pipeline alone, get_tracer leaves the log pipeline, the
\* registry and every logger alone, and with LOGGING_ENABLED false get_logger
\* never initializes the log pipeline.
C10_IndependentPipelines ==
    [][/\ Initialized(logger_provider) => Initialized(logger_provider')
       /\ Initialized(tracer_provider) => Initialized(tracer_provider')
       /\ ret'.op = "get_logger"
            => /\ tracer_provider' = tracer_provider
               /\ otel'.installed["trace"] = otel.installed["trace"]
       /\ ret'.op = "get_tracer"
            => /\ logger_provider' = logger_provider
               /\ otel'.installed["log"] = otel.installed["log"]
               /\ loggers' = loggers
               /\ py_loggers' = py_loggers
       /\ (ret'.op = "get_logger" /\ ~self_cfg.LOGGING_ENABLED)
            => logger_provider' = logger_provider]_vars

\* C10 witness: with LOGGING_ENABLED false a logger was configured and a
\* tracer handed out; the trace pipeline is initialized, the log pipeline not.
C10_Witness ==
    /\ ~self_cfg.LOGGING_ENABLED
    /\ loggers # <<>>
    /\ tracer # NoTracer
    /\ Initialized(tracer_provider)
    /\ ~Initialized(logger_provider)

----------------------------------------------------------------------------
(* Properties of the trace pipeline *)

CloudSpanExporter == "AzureMonitorTraceExporter"

\* C4: with LOGGING_ENABLED false no trace provider has the Azure Monitor
\* span exporter, no ended span reaches it, and get_tracer still initializes
\* the pipeline and hands out a tracer whose spans can be started and ended.
C4_DisabledNeverReachesCloud ==
    ~self_cfg.LOGGING_ENABLED
      => /\ CloudSpanExporter \notin ExportersOf(tracer_provider)
         /\ CloudSpanExporter \notin ExportersOf(tracer.provider)
         /\ CloudSpanExporter \notin ExportersOf(span.provider)
         /\ CloudSpanExporter \notin exported
         /\ ret.op = "get_tracer"
              => /\ ret.exc = "none"
                 /\ Initialized(tracer_provider)
                 /\ tracer.provider = tracer_provider
         /\ (tracer # NoTracer /\ span.state # "open") => ENABLED start_span
         /\ span.state = "open" => ENABLED end_span(TRUE)

\* C4 witness: with LOGGING_ENABLED false a span ended and was exported to
\* the console exporter only.
C4_Witness ==
    /\ ~self_cfg.LOGGING_ENABLED
    /\ span.state = "ended"
    /\ exported = {"ConsoleSpanExporter"}

\* C6: after get_tracer returns the trace pipeline is initialized and its
\* sampler uses self.sampling_ratio, whether initialized by that call or by an
\* earlier setup_tracer_provider; an initialized pipeline is not initialized again.
C6_TracerUsesConfiguredRatio ==
    [][ret'.op = "get_tracer"
          => /\ Initialized(tracer_provider')
             /\ tracer_provider'.sampler = self_cfg.sampling_ratio
             /\ Initialized(tracer_provider)
                  => (tracer_provider' = tracer_provider /\ otel' = otel)]_vars

----------------------------------------------------------------------------
(* Properties of DB and of the entry workflow *)

Submissions(op) == Cardinality({i \in 1..Len(db_calls) : db_calls[i].op = op})

AfterBatch == {"print_results", "except", "span_exit", "unwind", "done", "crashed"}

\* C5: when the batch call raises the aggregate error with failing index i,
\* the workflow prints batch_operations[i] with operation_responses[i] and
\* finishes; in every run the batch is submitted exactly once and no database
\* call follows it.
C5_BatchErrorReported ==
    /\ Submissions("execute_item_batch") <= 1
    /\ pc \in AfterBatch
         => /\ Submissions("execute_item_batch") = 1
            /\ db_calls[Len(db_calls)].op = "execute_item_batch"
    /\ (pc \in {"span_exit", "done"} /\ batch.outcome = "CosmosBatchOperationError")
         => /\ printed[Len(printed)].kind = "error"
            /\ printed[Len(printed)].operation = batch_operations[batch.error_index + 1]
            /\ printed[Len(printed)].response.index = batch.error_index
            /\ printed[Len(printed)].response
                  = batch.operation_responses[batch.error_index + 1]
            /\ Cardinality({i \in 1..Len(printed) : printed[i].kind = "error"}) = 1

\* C5 witness: the first read (index 2) failed and the workflow finished
\* after printing the request tuple at index 2.
C5_Witness ==
    /\ pc = "done"
    /\ batch.outcome = "CosmosBatchOperationError"
    /\ batch.error_index = 2
    /\ printed[Len(printed)].operation = [operation |-> "read", args |-> "123"]

\* C7: with a static access key in the settings that key is the credential of
\* the service client and DefaultAzureCredential is not invoked; without one
\* DefaultAzureCredential is invoked exactly once and is the credential; the
\* database handle comes from that service client and the container handle
\* from that database handle.
C7_CredentialSelection ==
    pc # "db"
      => /\ env.COSMOSDB_ACCESS_KEY \notin {NoneKey, ""}
              => /\ db.cosmos_client.credential
                      = [kind |-> "key", value |-> env.COSMOSDB_ACCESS_KEY]
                 /\ credential_calls = 0
         /\ env.COSMOSDB_ACCESS_KEY \in {NoneKey, ""}
              => /\ db.cosmos_client.credential.kind = "DefaultAzureCredential"
                 /\ credential_calls = 1
         /\ db.database_client.client = db.cosmos_client
         /\ db.database_client.database = env.COSMOSDB_DATABASE_NAME
         /\ db.container_client.database_client = db.database_client
         /\ db.container_client.container = env.COSMOSDB_CONTAINER_NAME

\* C7 witness: a DB built from settings that carry a static access key.
C7_Witness ==
    /\ pc = "container"
    /\ env.COSMOSDB_ACCESS_KEY = "primary-key"
    /\ db.credential.kind = "key"

====
